---- MODULE Spec2Model ----
(***************************************************************************)
(* The buffering / flush scheduler of celery_batches.Batches               *)
(* (src/celery_batches/__init__.py).                                       *)
(*                                                                         *)
(* Two threads run the code: the consumer thread, which calls              *)
(* task_message_handler once per message ("ingress"), and the timer        *)
(* thread of consumer.timer, which calls _do_flush each time a live        *)
(* repeating timer fires ("timer").  The pool fires the accept and the     *)
(* completion callback of a submitted batch on its own.  Every access to   *)
(* shared state (Queue.put, Queue.qsize, Queue.get_nowait, a read or a     *)
(* write of self._tref, Timer.cancel, Pool.apply_async) is one step.       *)
(***************************************************************************)
EXTENDS Integers, Sequences, FiniteSets, TLC

\* Number of messages the consumer delivers.
MaxReq == 3

\* Number of calls of apply().
MaxApply == 2

\* flush_every of the batch task (the test task `add`, flush_every=2).
flush_every == 2

None == 0

Threads == {"ingress", "timer"}
Reqs == 1..MaxReq

VARIABLES
    buffer,      \* self._buffer: the Queue's content, oldest first
    count,       \* the last value next(self._count) returned (0: none yet)
    tref,        \* self._tref: None or a timer entry
    live,        \* timer entries created by call_repeatedly and not cancelled
    pc,          \* where each thread is in task_message_handler / _do_flush
    requests,    \* _do_flush's local `requests` of each thread
    pushed,      \* number of requests delivered; request ids are 1..pushed
    acksLate,    \* r.task.acks_late as flush() read it for each request
    malformed,   \* requests on which SimpleRequest.from_request raised
    batches,     \* what apply_async received, in submission order
    acked,       \* per request: calls of acknowledge() by each callback
    err,         \* the exception that ended each thread's last call
    refused,     \* requests of the flush() calls in which apply_async raised
    aborted,     \* requests of the flush() calls in which from_request raised
    syncFlush,   \* the ingress calls that invoked flush_buffer()
    eager        \* apply(): the argument of each inline run of the task

vars == <<buffer, count, tref, live, pc, requests, pushed, acksLate,
          malformed, batches, acked, err, refused, aborted, syncFlush,
          eager>>

Range(s) == {s[i] : i \in DOMAIN s}

\* Batches.__init__
Init ==
    /\ buffer = <<>>
    /\ count = 0
    /\ tref = None
    /\ live = {}
    /\ pc = [t \in Threads |-> "idle"]
    /\ requests = [t \in Threads |-> <<>>]
    /\ pushed = 0
    /\ acksLate = [r \in Reqs |-> FALSE]
    /\ malformed = {}
    /\ batches = <<>>
    /\ acked = [r \in Reqs |-> [accept |-> 0, return |-> 0]]
    /\ err = [t \in Threads |-> "none"]
    /\ refused = {}
    /\ aborted = {}
    /\ syncFlush = {}
    /\ eager = <<>>

\* Number of places of sequence s that hold x.
Occurrences(s, x) == Cardinality({i \in DOMAIN s : s[i] = x})

\* Faulty variant: the trigger compares instead of taking the remainder.
CountTriggerAtLeast(n) == n >= flush_every

\* Faulty variant: the trigger is one call late.
CountTriggerOneLate(n) == n % (flush_every + 1) = 0

\* `not next(self._count) % self.flush_every`, n being what next() returned.
CountTrigger(n) == n % flush_every = 0

\* Faulty variant: a queue of size one that drops what does not fit.
QueuePutDropsWhenFull(q, r) == IF Len(q) >= 1 THEN q ELSE Append(q, r)

\* Queue.put: the queue after put(r).
QueuePut(q, r) == Append(q, r)

\* Queue.get_nowait on a non-empty queue: the item it returns.
QueueGetItem(q) == Head(q)

\* Queue.get_nowait on a non-empty queue: the queue it leaves.
QueueGetRest(q) == Tail(q)

\* SimpleRequest.from_request: the snapshot keeps the request's id (the other
\* fields it copies are payload no operation of the scheduler reads).
FromRequest(r) == [id |-> r]

\* Faulty variant: the two lists are filled the wrong way round.
AcksLatePartitionSwapped(reqs, flag, late) ==
    SelectSeq(reqs, LAMBDA r : flag[r] # late)

\* acks_late[late] of flush(): the requests whose task.acks_late is `late`,
\* in the order of `reqs`; flag[r] is what r.task.acks_late evaluates to.
AcksLatePartition(reqs, flag, late) ==
    SelectSeq(reqs, LAMBDA r : flag[r] = late)

\* Faulty variant: `and` / `or` the wrong way round, noop when there is something to
\* acknowledge.
ReturnCallbackInverted(deferred) ==
    IF deferred # <<>> THEN "noop" ELSE "on_return"

\* `callback=acks_late[True] and on_return or noop`
ReturnCallback(deferred) == IF deferred # <<>> THEN "on_return" ELSE "noop"

\* Faulty variant: the snapshots are taken partition by partition.
SubmittedBatchByPartition(reqs, flag) ==
    [ requests  |-> [i \in DOMAIN reqs |->
                        FromRequest((AcksLatePartition(reqs, flag, FALSE)
                                     \o AcksLatePartition(reqs, flag, TRUE))[i])],
      immediate |-> AcksLatePartition(reqs, flag, FALSE),
      deferred  |-> AcksLatePartition(reqs, flag, TRUE),
      callback  |-> ReturnCallback(AcksLatePartition(reqs, flag, TRUE)),
      accepted  |-> FALSE,
      returned  |-> FALSE ]

\* What one successful flush(reqs) hands to the pool: the snapshots of the
\* whole list and the two closures' captured lists; flag[r] is what
\* r.task.acks_late evaluates to.
SubmittedBatch(reqs, flag) ==
    [ requests  |-> [i \in DOMAIN reqs |-> FromRequest(reqs[i])],
      immediate |-> AcksLatePartition(reqs, flag, FALSE),
      deferred  |-> AcksLatePartition(reqs, flag, TRUE),
      callback  |-> ReturnCallback(AcksLatePartition(reqs, flag, TRUE)),
      accepted  |-> FALSE,
      returned  |-> FALSE ]

\* The ids of the snapshots of batch b, in order.
BatchIds(b) == [i \in DOMAIN b.requests |-> b.requests[i].id]

\* A call of this thread ends: normally (e = "none") or by exception e.
Finish(t, e) ==
    /\ pc' = [pc EXCEPT ![t] = "idle"]
    /\ err' = [err EXCEPT ![t] = e]

\* task_message_handler, up to put_buffer(request): a message arrives and the
\* request built from it is put into the buffer.
Receive ==
    /\ pc["ingress"] = "idle"
    /\ pushed < MaxReq
    /\ pushed' = pushed + 1
    /\ buffer' = QueuePut(buffer, pushed + 1)
    /\ pc' = [pc EXCEPT !["ingress"] = "chk_tref"]
    /\ err' = [err EXCEPT !["ingress"] = "none"]
    /\ UNCHANGED <<count, tref, live, requests, acksLate, malformed, batches,
                   acked, refused, aborted, syncFlush, eager>>

\* `if self._tref is None:`
CheckTref ==
    /\ pc["ingress"] = "chk_tref"
    /\ pc' = [pc EXCEPT !["ingress"] = IF tref = None THEN "arm" ELSE "count"]
    /\ UNCHANGED <<buffer, count, tref, live, requests, pushed,
                   acksLate, malformed, batches, acked, err, refused, aborted,
                   syncFlush, eager>>

\* The entry call_repeatedly returns: an object distinct from every live entry.
NewTimer == CHOOSE tm \in 1..MaxReq : tm \notin live

\* `self._tref = timer.call_repeatedly(self.flush_interval, flush_buffer)`
Arm ==
    /\ pc["ingress"] = "arm"
    /\ tref' = NewTimer
    /\ live' = live \cup {NewTimer}
    /\ pc' = [pc EXCEPT !["ingress"] = "count"]
    /\ UNCHANGED <<buffer, count, requests, pushed, acksLate, malformed,
                   batches, acked, err, refused, aborted, syncFlush, eager>>

\* Faulty variant: the counter starts again from zero after a count-triggered flush.
NextCountResets ==
    /\ pc["ingress"] = "count"
    /\ IF CountTrigger(count + 1)
       THEN /\ count' = 0
            /\ pc' = [pc EXCEPT !["ingress"] = "qsize"]
            /\ syncFlush' = syncFlush \cup {count + 1}
       ELSE /\ count' = count + 1
            /\ pc' = [pc EXCEPT !["ingress"] = "idle"]
            /\ UNCHANGED syncFlush
    /\ UNCHANGED <<buffer, tref, live, requests, pushed, acksLate,
                   malformed, batches, acked, err, refused, aborted, eager>>

\* `if not next(self._count) % self.flush_every: flush_buffer()`
NextCount ==
    /\ pc["ingress"] = "count"
    /\ count' = count + 1
    /\ IF CountTrigger(count + 1)
         THEN /\ pc' = [pc EXCEPT !["ingress"] = "qsize"]
              /\ syncFlush' = syncFlush \cup {count + 1}
         ELSE /\ pc' = [pc EXCEPT !["ingress"] = "idle"]
              /\ UNCHANGED syncFlush
    /\ UNCHANGED <<buffer, tref, live, requests, pushed, acksLate,
                   malformed, batches, acked, err, refused, aborted, eager>>

\* A live repeating timer fires: the timer thread calls _do_flush.
TimerFire(tm) ==
    /\ pc["timer"] = "idle"
    /\ tm \in live
    /\ pc' = [pc EXCEPT !["timer"] = "qsize"]
    /\ err' = [err EXCEPT !["timer"] = "none"]
    /\ UNCHANGED <<buffer, count, tref, live, requests, pushed,
                   acksLate, malformed, batches, acked, refused, aborted, syncFlush,
                   eager>>

\* _do_flush: `requests = None; if self._buffer.qsize():`
QSize(t) ==
    /\ pc[t] = "qsize"
    /\ requests' = [requests EXCEPT ![t] = <<>>]
    /\ pc' = [pc EXCEPT ![t] = IF Len(buffer) # 0 THEN "drain" ELSE "chk_cancel"]
    /\ UNCHANGED <<buffer, count, tref, live, pushed, acksLate,
                   malformed, batches, acked, err, refused, aborted, syncFlush,
                   eager>>

\* consume_queue: one `yield get()` that finds an item.
GetNowait(t) ==
    /\ pc[t] = "drain"
    /\ buffer # <<>>
    /\ requests' = [requests EXCEPT ![t] = Append(@, QueueGetItem(buffer))]
    /\ buffer' = QueueGetRest(buffer)
    /\ UNCHANGED <<count, tref, live, pc, pushed, acksLate, malformed,
                   batches, acked, err, refused, aborted, syncFlush, eager>>

\* Faulty variant: `if not requests:` taken whatever the list holds, so that a flush
\* attempt that drained something goes on to cancel the timer.
GetEmptyAlwaysCancels(t) ==
    /\ pc[t] = "drain"
    /\ buffer = <<>>
    /\ pc' = [pc EXCEPT ![t] = "chk_cancel"]
    /\ UNCHANGED <<buffer, count, tref, live, requests, pushed,
                   acksLate, malformed, batches, acked, err, refused, aborted,
                   syncFlush, eager>>

\* Faulty variant: `if requests:` is missing, flush() is called with whatever was
\* drained.
GetEmptyAlwaysFlushes(t) ==
    /\ pc[t] = "drain"
    /\ buffer = <<>>
    /\ pc' = [pc EXCEPT ![t] = "flush"]
    /\ UNCHANGED <<buffer, count, tref, live, requests, pushed,
                   acksLate, malformed, batches, acked, err, refused, aborted,
                   syncFlush, eager>>

\* consume_queue: get() raises Empty, the list is complete; `if requests:`.
GetEmpty(t) ==
    /\ pc[t] = "drain"
    /\ buffer = <<>>
    /\ pc' = [pc EXCEPT ![t] = IF requests[t] # <<>> THEN "flush" ELSE "chk_cancel"]
    /\ UNCHANGED <<buffer, count, tref, live, requests, pushed,
                   acksLate, malformed, batches, acked, err, refused, aborted,
                   syncFlush, eager>>

\* Faulty variant: the submitted requests are put back into the buffer.
FlushSubmitRequeues(t) ==
    /\ pc[t] = "flush"
    /\ \E flag \in [Range(requests[t]) -> BOOLEAN] :
           /\ acksLate' = [r \in Reqs |->
                              IF r \in DOMAIN flag THEN flag[r] ELSE acksLate[r]]
           /\ batches' = Append(batches, SubmittedBatch(requests[t], flag))
    /\ buffer' = buffer \o requests[t]
    /\ requests' = [requests EXCEPT ![t] = <<>>]
    /\ Finish(t, "none")
    /\ UNCHANGED <<count, tref, live, pushed, malformed, acked, refused,
                   aborted, syncFlush, eager>>

\* Faulty variant: one apply_async call per request of the list.
FlushSubmitPerRequest(t) ==
    /\ pc[t] = "flush"
    /\ \E flag \in [Range(requests[t]) -> BOOLEAN] :
           /\ acksLate' = [r \in Reqs |->
                              IF r \in Range(requests[t]) THEN flag[r]
                              ELSE acksLate[r]]
           /\ batches' = batches \o
                  [i \in DOMAIN requests[t] |->
                       SubmittedBatch(<<requests[t][i]>>, flag)]
    /\ requests' = [requests EXCEPT ![t] = <<>>]
    /\ pc' = [pc EXCEPT ![t] = "idle"]
    /\ UNCHANGED <<buffer, count, tref, live, pushed, malformed, acked,
                   err, refused, aborted, syncFlush, eager>>

\* flush(requests) whose snapshots are built and whose apply_async returns;
\* back in _do_flush `not requests` is false and the call returns.  flag is
\* what `r.task.acks_late` evaluates to for each request of the list.
FlushSubmit(t) ==
    /\ pc[t] = "flush"
    /\ \E flag \in [Range(requests[t]) -> BOOLEAN] :
           /\ acksLate' = [r \in Reqs |->
                              IF r \in DOMAIN flag THEN flag[r] ELSE acksLate[r]]
           /\ batches' = Append(batches, SubmittedBatch(requests[t], flag))
    /\ requests' = [requests EXCEPT ![t] = <<>>]
    /\ Finish(t, "none")
    /\ UNCHANGED <<buffer, count, tref, live, pushed, malformed, acked,
                   refused, aborted, syncFlush, eager>>

\* Faulty variant: the request whose snapshot raises is skipped and the rest
\* of the list is submitted.
FlushSnapshotSkipsMalformed(t) ==
    /\ pc[t] = "flush"
    /\ \E k \in DOMAIN requests[t] :
           /\ malformed' = malformed \cup {requests[t][k]}
           /\ batches' = Append(batches,
                  SubmittedBatch(SelectSeq(requests[t],
                                           LAMBDA r : r # requests[t][k]),
                                 [r \in Range(requests[t]) |-> FALSE]))
    /\ aborted' = aborted \cup Range(requests[t])
    /\ requests' = [requests EXCEPT ![t] = <<>>]
    /\ Finish(t, "snapshot")
    /\ UNCHANGED <<buffer, count, tref, live, pushed, acksLate,
                   acked, refused, syncFlush, eager>>

\* flush(requests) in which SimpleRequest.from_request raises on the k-th
\* request of the list, the first that lacks what the snapshot reads (any
\* request may): the exception leaves the list comprehension, flush and
\* _do_flush before apply_async is reached.
FlushSnapshotRaises(t) ==
    /\ pc[t] = "flush"
    /\ \E k \in DOMAIN requests[t] :
           malformed' = malformed \cup {requests[t][k]}
    /\ aborted' = aborted \cup Range(requests[t])
    /\ requests' = [requests EXCEPT ![t] = <<>>]
    /\ Finish(t, "snapshot")
    /\ UNCHANGED <<buffer, count, tref, live, pushed, acksLate, batches,
                   acked, refused, syncFlush, eager>>

\* Faulty variant: the refused requests are put back into the buffer for a retry.
FlushSubmitRaisesRequeues(t) ==
    /\ pc[t] = "flush"
    /\ refused' = refused \cup Range(requests[t])
    /\ buffer' = buffer \o requests[t]
    /\ requests' = [requests EXCEPT ![t] = <<>>]
    /\ Finish(t, "submit")
    /\ UNCHANGED <<count, tref, live, pushed, acksLate,
                   malformed, batches, acked, aborted, syncFlush, eager>>

\* flush(requests) in which self._pool.apply_async raises (any submission
\* may): the exception leaves flush and _do_flush.
FlushSubmitRaises(t) ==
    /\ pc[t] = "flush"
    /\ refused' = refused \cup Range(requests[t])
    /\ requests' = [requests EXCEPT ![t] = <<>>]
    /\ Finish(t, "submit")
    /\ UNCHANGED <<buffer, count, tref, live, pushed, acksLate,
                   malformed, batches, acked, aborted, syncFlush, eager>>

\* `if not requests:` taken, `if self._tref:`
CheckCancel(t) ==
    /\ pc[t] = "chk_cancel"
    /\ pc' = [pc EXCEPT ![t] = IF tref # None THEN "cancel" ELSE "clear"]
    /\ UNCHANGED <<buffer, count, tref, live, requests, pushed,
                   acksLate, malformed, batches, acked, err, refused, aborted,
                   syncFlush, eager>>

\* `self._tref.cancel()`: reads self._tref again and cancels that entry.
Cancel(t) ==
    /\ pc[t] = "cancel"
    /\ tref # None
    /\ live' = live \ {tref}
    /\ pc' = [pc EXCEPT ![t] = "clear"]
    /\ UNCHANGED <<buffer, count, tref, requests, pushed, acksLate,
                   malformed, batches, acked, err, refused, aborted, syncFlush,
                   eager>>

\* `self._tref.cancel()` when the other thread has set self._tref to None
\* since the test: AttributeError leaves _do_flush.
CancelRaises(t) ==
    /\ pc[t] = "cancel"
    /\ tref = None
    /\ Finish(t, "attribute")
    /\ UNCHANGED <<buffer, count, tref, live, requests, pushed,
                   acksLate, malformed, batches, acked, refused, aborted, syncFlush,
                   eager>>

\* `self._tref = None`, and _do_flush returns.
Clear(t) ==
    /\ pc[t] = "clear"
    /\ tref' = None
    /\ Finish(t, "none")
    /\ UNCHANGED <<buffer, count, live, requests, pushed, acksLate,
                   malformed, batches, acked, refused, aborted, syncFlush,
                   eager>>

\* acknowledge() called once more on every place of list `reqs`, by `cb`.
Acknowledge(reqs, cb) ==
    [r \in Reqs |->
        IF cb = "accept"
          THEN [acked[r] EXCEPT !.accept = @ + Occurrences(reqs, r)]
          ELSE [acked[r] EXCEPT !.return = @ + Occurrences(reqs, r)]]

\* The pool fires accept_callback of batch b: on_accepted.
OnAccepted(b) ==
    /\ b \in DOMAIN batches
    /\ ~batches[b].accepted
    /\ batches' = [batches EXCEPT ![b].accepted = TRUE]
    /\ acked' = Acknowledge(batches[b].immediate, "accept")
    /\ UNCHANGED <<buffer, count, tref, live, pc, requests, pushed,
                   acksLate, malformed, err, refused, aborted, syncFlush,
                   eager>>

\* The pool fires callback of batch b: on_return, or noop.
OnReturn(b) ==
    /\ b \in DOMAIN batches
    /\ batches[b].accepted
    /\ ~batches[b].returned
    /\ batches' = [batches EXCEPT ![b].returned = TRUE]
    /\ acked' = IF batches[b].callback = "on_return"
                  THEN Acknowledge(batches[b].deferred, "return")
                  ELSE acked
    /\ UNCHANGED <<buffer, count, tref, live, pc, requests, pushed,
                   acksLate, malformed, err, refused, aborted, syncFlush,
                   eager>>

\* Faulty variant: the repeating timer is registered when the task is constructed, so
\* it fires whether or not an ingress call armed it.
FireFromConstruction ==
    /\ pc["timer"] = "idle"
    /\ pc' = [pc EXCEPT !["timer"] = "qsize"]
    /\ err' = [err EXCEPT !["timer"] = "none"]
    /\ UNCHANGED <<buffer, count, tref, live, requests, pushed,
                   acksLate, malformed, batches, acked, refused, aborted,
                   syncFlush, eager>>

\* The timer service fires a live timer.
Fire == \E tm \in live : TimerFire(tm)

\* A step of the consumer thread or of the timer thread.
NextScheduler ==
    \/ Receive
    \/ CheckTref
    \/ Arm
    \/ NextCount
    \/ Fire
    \/ \E t \in Threads : QSize(t)
    \/ \E t \in Threads : GetNowait(t)
    \/ \E t \in Threads : GetEmpty(t)
    \/ \E t \in Threads : FlushSubmit(t)
    \/ \E t \in Threads : FlushSnapshotRaises(t)
    \/ \E t \in Threads : FlushSubmitRaises(t)
    \/ \E t \in Threads : CheckCancel(t)
    \/ \E t \in Threads : Cancel(t)
    \/ \E t \in Threads : CancelRaises(t)
    \/ \E t \in Threads : Clear(t)

\* The pool calls back for a submitted batch.
PoolStep ==
    \/ \E b \in DOMAIN batches : OnAccepted(b)
    \/ \E b \in DOMAIN batches : OnReturn(b)

Next == NextScheduler \/ PoolStep

\* The scheduler alone, up to the submission of batches: the pool's callbacks
\* write only `acked` and the accepted / returned marks of a batch, which no
\* step of the two threads reads.
SpecScheduler == Init /\ [][NextScheduler]_vars

\* The SimpleRequest that apply() builds for its n-th call: its id is
\* options["task_id"] or a fresh uuid(), never the id of a delivered message.
EagerRequest(n) == [id |-> 0 - n]

\* Faulty variant: apply() also draws from the insertion counter, as an ingress call
\* does.
ApplyCountsAsIngress ==
    /\ Len(eager) < MaxApply
    /\ eager' = Append(eager, <<EagerRequest(Len(eager) + 1)>>)
    /\ count' = count + 1
    /\ UNCHANGED <<buffer, tref, live, pc, requests, pushed, acksLate,
                   malformed, batches, acked, err, refused, aborted,
                   syncFlush>>

\* Batches.apply, in the caller's thread: builds one SimpleRequest and runs
\* the task inline through Task.apply with the argument [request].
Apply ==
    /\ Len(eager) < MaxApply
    /\ eager' = Append(eager, <<EagerRequest(Len(eager) + 1)>>)
    /\ UNCHANGED <<buffer, count, tref, live, pc, requests, pushed, acksLate,
                   malformed, batches, acked, err, refused, aborted,
                   syncFlush>>

\* The scheduler with callers of apply() beside the two threads.
NextApply == NextScheduler \/ Apply

SpecApply == Init /\ [][NextApply]_vars

\* The scheduler and the pool's callbacks.
Spec == Init /\ [][Next]_vars
\* One step of _do_flush on thread t when nothing raises in flush().
FlushStep(t) ==
    \/ QSize(t)
    \/ GetNowait(t)
    \/ GetEmpty(t)
    \/ FlushSubmit(t)
    \/ CheckCancel(t)
    \/ Cancel(t)
    \/ CancelRaises(t)
    \/ Clear(t)

\* One step of a task_message_handler call after its put.
HandlerStep == CheckTref \/ Arm \/ NextCount \/ FlushStep("ingress")

\* The scheduler when no snapshot and no apply_async raises.
NextLive ==
    \/ Receive
    \/ HandlerStep
    \/ Fire
    \/ FlushStep("timer")
    \/ PoolStep

\* Both threads keep running (a started call is run to its end) and the
\* timer service keeps firing a live timer; messages need not keep arriving
\* and the pool need not call back.
SpecLive ==
    /\ Init
    /\ [][NextLive]_vars
    /\ WF_vars(HandlerStep)
    /\ WF_vars(FlushStep("timer"))
    /\ WF_vars(Fire)

\* No call of task_message_handler or _do_flush is in progress.
Quiescent == \A t \in Threads : pc[t] = "idle"

\* The pcs of _do_flush.
FlushPcs == {"qsize", "drain", "flush", "chk_cancel", "cancel", "clear"}

\* Number of places of the first n batches that hold request r.
RECURSIVE InBatches(_, _)
InBatches(r, n) ==
    IF n = 0 THEN 0
    ELSE Occurrences(BatchIds(batches[n]), r) + InBatches(r, n - 1)

\* Number of places that hold request r: in the buffer, in the list of a
\* flush attempt that has not submitted yet, in a submitted batch.
Places(r) ==
    Occurrences(buffer, r)
    + Occurrences(requests["ingress"], r)
    + Occurrences(requests["timer"], r)
    + InBatches(r, Len(batches))

\* C1: the batches handed to the pool are pairwise disjoint: no request is
\* in two batches, for every interleaving of ingress calls with timer-fired
\* and count-triggered flush attempts.
C1_BatchesDisjoint ==
    \A i, j \in DOMAIN batches :
        i # j => Range(BatchIds(batches[i])) \cap Range(BatchIds(batches[j])) = {}

\* C1 witness: the timer thread and the ingress thread drained concurrently
\* and two batches have been submitted.
C1_Witness ==
    /\ Len(batches) >= 2
    /\ Len(batches[1].requests) + Len(batches[2].requests) >= 3

\* C2: as long as no snapshot and no submission has failed, every pushed
\* request is in exactly one place: the buffer, the list of a flush attempt
\* still draining, or one submitted batch.
C2_ExactlyOnePlace ==
    (refused = {} /\ aborted = {}) => \A r \in 1..pushed : Places(r) = 1

\* C2 witness: nothing failed and the pushed requests are spread over the
\* three kinds of places: a submitted batch, the list of the timer's flush
\* attempt, and the buffer, where an ingress call has just pushed.
C2_Witness ==
    /\ refused = {} /\ aborted = {}
    /\ batches # <<>>
    /\ requests["timer"] # <<>>
    /\ buffer # <<>>
    /\ pc["ingress"] = "chk_tref"

\* C3: the n-th ingress call invokes _do_flush inside the call exactly when
\* n mod flush_every = 0, and after its push, whatever the timer flushed.
C3_CountTriggerExact ==
    /\ syncFlush = {n \in 1..count : n % flush_every = 0}
    /\ pc["ingress"] \in FlushPcs => (count \in syncFlush /\ pushed = count)
    /\ pc["ingress"] \in {"chk_tref", "arm", "count"} => pushed = count + 1
    /\ pc["ingress"] = "idle" => pushed = count

\* C3 witness: three calls returned, only the second flushed synchronously,
\* and the timer flushed in between (two batches at least).
C3_Witness ==
    /\ pc["ingress"] = "idle"
    /\ count = flush_every + 1
    /\ syncFlush = {flush_every}
    /\ Len(batches) >= 2

\* Request r is in a batch submitted to the pool.
Submitted(r) == \E b \in DOMAIN batches : r \in Range(BatchIds(batches[b]))

\* C4: every pushed request is eventually in a batch submitted to the pool,
\* also when no further request arrives, under fairness of the timer and of
\* the two threads' steps, with submission never failing.
C4_EventuallySubmitted ==
    \A r \in Reqs : (r <= pushed) ~> Submitted(r)

\* The acknowledge() calls request r has received.
Acks(r) == acked[r].accept + acked[r].return

\* C5: within every batch the snapshots are in the order in which the
\* requests were pushed (ids grow in push order), and the snapshot sequence
\* covers both acks_late partitions of the batch.
C5_BatchOrderFIFO ==
    \A b \in DOMAIN batches :
        /\ \A i, j \in DOMAIN batches[b].requests :
               i < j => batches[b].requests[i].id < batches[b].requests[j].id
        /\ Len(batches[b].requests)
               = Len(batches[b].immediate) + Len(batches[b].deferred)
        /\ Range(BatchIds(batches[b]))
               = Range(batches[b].immediate) \cup Range(batches[b].deferred)

\* C5 witness: a batch whose first request is acks_late and whose second is
\* not, submitted while another batch exists.
C5_Witness ==
    /\ Len(batches) >= 2
    /\ \E b \in DOMAIN batches :
           /\ Len(batches[b].requests) >= 2
           /\ acksLate[batches[b].requests[1].id]
           /\ ~acksLate[batches[b].requests[2].id]

\* C6: once the pool has fired both callbacks of a batch, every request of
\* the batch has been acknowledged exactly once: by on_accepted when its
\* acks_late is False, by on_return when it is True.
C6_AckedExactlyOnce ==
    \A b \in DOMAIN batches :
        (batches[b].accepted /\ batches[b].returned) =>
            \A r \in Range(BatchIds(batches[b])) :
                /\ Acks(r) = 1
                /\ acksLate[r] => acked[r].return = 1
                /\ ~acksLate[r] => acked[r].accept = 1

\* C6 witness: a batch mixing both policies whose two callbacks have fired.
C6_Witness ==
    \E b \in DOMAIN batches :
        /\ batches[b].accepted /\ batches[b].returned
        /\ batches[b].immediate # <<>>
        /\ batches[b].deferred # <<>>

\* C7: an acks_late request is acknowledged only once the completion
\* callback of its batch has fired, another request only once the accept
\* callback has; the accept callback never acknowledges an acks_late
\* request, and a request in no batch is not acknowledged.
C7_AckGatedByCallbacks ==
    /\ \A b \in DOMAIN batches : \A r \in Range(BatchIds(batches[b])) :
           /\ (acksLate[r] /\ Acks(r) > 0) => batches[b].returned
           /\ (~acksLate[r] /\ Acks(r) > 0) => batches[b].accepted
           /\ acksLate[r] => acked[r].accept = 0
           /\ (batches[b].accepted /\ ~acksLate[r]) => Acks(r) = 1
    /\ \A r \in Reqs : ~Submitted(r) => Acks(r) = 0

\* C7 witness: a batch mixing both policies that was accepted and has not
\* completed.
C7_Witness ==
    \E b \in DOMAIN batches :
        /\ batches[b].accepted /\ ~batches[b].returned
        /\ batches[b].immediate # <<>>
        /\ batches[b].deferred # <<>>

\* C8, as stated: whenever no call is in progress, the timer handle is set
\* if and only if the buffer is non-empty.
C8_ArmedIffNonEmpty ==
    Quiescent => (tref # None <=> buffer # <<>>)

\* C8, amended: the handle goes from None to set only by the arming step of
\* an ingress call that has made its push, and from set to None only by the
\* last step of a flush attempt that drained nothing; a flush attempt that
\* drained something leaves it set, whatever the buffer holds.
C8_ArmedLazilyClearedWhenIdle ==
    [][ /\ (tref = None /\ tref' # None) =>
              (pc["ingress"] = "arm" /\ pushed = count + 1)
        /\ (tref # None /\ tref' = None) =>
              \E t \in Threads :
                  /\ pc[t] = "clear" /\ pc'[t] = "idle"
                  /\ requests[t] = <<>>
        /\ \A t \in Threads :
              (pc[t] = "flush" /\ pc'[t] # "flush") => tref' = tref ]_vars

\* C8 witness: no call is in progress, the buffer has been drained by a
\* flush that submitted a batch, and the timer is still armed.
C8_Witness ==
    /\ Quiescent
    /\ batches # <<>>
    /\ buffer = <<>>
    /\ tref # None
    /\ tref \in live

\* C9: a timer fire whose flush attempt found the buffer empty ends with the
\* handle None and no timer left to fire (a later fire needs a timer that a
\* later ingress call arms).
C9_EmptyFireDisarms ==
    [][ (pc["timer"] \in {"chk_cancel", "cancel", "clear"} /\ pc'["timer"] = "idle")
            => (tref' = None /\ live' = {}) ]_vars

\* C10: the requests of a flush() in which apply_async raised are never
\* acknowledged, are not put back into the buffer and are in no batch and in
\* no later flush attempt's list; the step in which apply_async raises ends
\* the thread's call with the exception and touches nothing else.
C10_RefusedNeverRetried ==
    /\ [](\A r \in refused :
              /\ Acks(r) = 0
              /\ Places(r) = 0)
    /\ [][ \A t \in Threads :
              (pc[t] = "flush" /\ pc'[t] = "idle" /\ batches' = batches
                 /\ malformed' = malformed)
              => /\ err'[t] = "submit"
                 /\ refused' = refused \cup Range(requests[t])
                 /\ buffer' = buffer
                 /\ acked' = acked
                 /\ tref' = tref /\ live' = live ]_vars

\* C10 witness: apply_async raised in a count-triggered flush, and a batch
\* was submitted by another flush while the refused requests stay out.
C10_Witness ==
    /\ refused # {}
    /\ err["ingress"] = "submit"
    /\ batches # <<>>
    /\ \E b \in DOMAIN batches : batches[b].accepted

\* C11: when SimpleRequest.from_request raises on a request of flush()'s
\* list, the exception leaves flush() and the thread's call, apply_async is
\* not called for that list (no batch is appended, so neither the malformed
\* request nor a well-formed one of the list reaches the pool), and no
\* request of the list is ever acknowledged or held anywhere afterwards.
C11_MalformedAbortsBatch ==
    /\ [](\A r \in aborted :
              /\ Acks(r) = 0
              /\ Places(r) = 0)
    /\ [][ \A t \in Threads :
              (pc[t] = "flush" /\ pc'[t] # "flush" /\ malformed' # malformed)
              => /\ pc'[t] = "idle"
                 /\ err'[t] = "snapshot"
                 /\ batches' = batches
                 /\ aborted' = aborted \cup Range(requests[t])
                 /\ acked' = acked ]_vars

\* C11 witness: from_request raised in a flush() whose list held a malformed
\* and a well-formed request, and a later batch was submitted and accepted
\* while both stay out.
C11_Witness ==
    /\ \E r \in aborted : r \in malformed
    /\ \E r \in aborted : r \notin malformed
    /\ \E t \in Threads : err[t] = "snapshot"
    /\ \E b \in DOMAIN batches : batches[b].accepted

\* A step in which thread t ends flush(requests) with one apply_async call
\* that carries the whole list: the call returned and one batch was added, or
\* the call itself raised.
OneSubmissionOfList(t) ==
    \/ /\ Len(batches') = Len(batches) + 1
       /\ BatchIds(batches'[Len(batches')]) = requests[t]
    \/ /\ err'[t] = "submit"
       /\ batches' = batches

\* A step that adds to what the pool received adds one batch, the whole list
\* of a thread that is leaving flush().
SubmissionsOnlyByFlush ==
    Len(batches') # Len(batches)
    => /\ Len(batches') = Len(batches) + 1
       /\ \E t \in Threads :
              /\ pc[t] = "flush" /\ pc'[t] = "idle"
              /\ BatchIds(batches'[Len(batches')]) = requests[t]

\* A flush attempt calls flush() exactly when it drained something.
FlushIffDrained ==
    \A t \in Threads :
        (pc[t] = "drain" /\ pc'[t] # "drain")
        => (pc'[t] = "flush" <=> requests[t] # <<>>)

\* C12 as stated: every flush attempt that drained at least one request makes
\* exactly one apply_async call with all the requests it drained, so the
\* apply_async calls are as many as the flush attempts that drained a
\* non-empty list.
C12_OneSubmissionPerNonEmptyDrain ==
    [][ /\ FlushIffDrained
        /\ SubmissionsOnlyByFlush
        /\ \A t \in Threads :
               (pc[t] = "flush" /\ pc'[t] # "flush") => OneSubmissionOfList(t)
      ]_vars

\* C12 amended: a flush attempt that drained at least one request and built
\* every snapshot makes exactly one apply_async call with all the requests
\* it drained; one in which from_request raised makes none; nothing else
\* submits.
C12_OneSubmissionUnlessSnapshotRaises ==
    [][ /\ FlushIffDrained
        /\ SubmissionsOnlyByFlush
        /\ \A t \in Threads :
               (pc[t] = "flush" /\ pc'[t] # "flush")
               => IF malformed' = malformed
                  THEN OneSubmissionOfList(t)
                  ELSE err'[t] = "snapshot" /\ batches' = batches
      ]_vars

\* C12 witness: the second ingress call's count-triggered flush drained both
\* requests and the pool received them as one batch.
C12_Witness ==
    /\ Quiescent
    /\ syncFlush = {flush_every}
    /\ Len(batches) = 1
    /\ Len(batches[1].requests) = flush_every
    /\ refused = {} /\ aborted = {}

\* `assert requests and (acks_late[True] or acks_late[False])` of flush().
FlushAssertion(reqs, flag) ==
    /\ reqs # <<>>
    /\ \/ AcksLatePartition(reqs, flag, TRUE) # <<>>
       \/ AcksLatePartition(reqs, flag, FALSE) # <<>>

\* C13: flush() is never entered with an empty list, so its assertion holds
\* whatever acks_late the requests have; a flush attempt that drained nothing
\* is on the cancel path with nothing to submit, and no batch is empty.
C13_FlushNeverEmpty ==
    /\ \A t \in Threads :
           /\ pc[t] = "flush"
              => \A flag \in [Range(requests[t]) -> BOOLEAN] :
                     FlushAssertion(requests[t], flag)
           /\ pc[t] \in {"chk_cancel", "cancel", "clear"} => requests[t] = <<>>
    /\ \A b \in DOMAIN batches : batches[b].requests # <<>>

\* C13 witness: the ingress thread's count-triggered flush saw a non-empty
\* queue, the timer thread took everything, and the ingress thread is about
\* to find the queue empty with nothing drained.
C13_Witness ==
    /\ pc["ingress"] = "drain"
    /\ requests["ingress"] = <<>>
    /\ buffer = <<>>
    /\ requests["timer"] # <<>>

\* C14: apply() runs the batch function inline on a list of exactly one
\* request and changes nothing of the scheduler: nothing is put in the
\* buffer, the counter does not advance, the timer is neither armed nor
\* cancelled, nothing is submitted to the pool.
C14_ApplyLeavesSchedulerAlone ==
    /\ [](\A i \in DOMAIN eager : Len(eager[i]) = 1)
    /\ [][ eager' # eager
           => /\ Len(eager') = Len(eager) + 1
              /\ buffer' = buffer
              /\ count' = count
              /\ tref' = tref /\ live' = live
              /\ batches' = batches
              /\ pushed' = pushed
              /\ pc' = pc /\ requests' = requests ]_vars

\* C14 witness: apply() ran the task inline while the scheduler held a
\* buffered request, an armed timer and a submitted batch.
C14_Witness ==
    /\ eager # <<>>
    /\ buffer # <<>>
    /\ tref # None
    /\ batches # <<>>
    /\ count = pushed

\* C15: after construction the buffer is empty and _tref is None; as long as
\* no ingress call has occurred no timer is armed, no flush attempt runs and
\* nothing is submitted; a timer is created and _tref set only by the arming
\* step of an ingress call, after that call's push and before its draw from
\* the counter.
C15_ArmedOnlyByIngress ==
    /\ [](pushed = 0
          => /\ buffer = <<>>
             /\ tref = None /\ live = {}
             /\ Quiescent
             /\ count = 0 /\ syncFlush = {}
             /\ batches = <<>>)
    /\ [][ ((tref' # tref /\ tref' # None) \/ ~(live' \subseteq live))
           => /\ pc["ingress"] = "arm" /\ pc'["ingress"] = "count"
              /\ pushed = count + 1
              /\ buffer' = buffer ]_vars

\* C15 witness: apply() has been called but no ingress call yet, and nothing
\* of the scheduler has moved.
C15_Witness ==
    /\ pushed = 0
    /\ eager # <<>>
    /\ tref = None

\* The requests of sequence ids are consecutive arrivals, in arrival order
\* (request ids are arrival numbers).
ContiguousRun(ids) ==
    \A i \in 1..(Len(ids) - 1) : ids[i + 1] = ids[i] + 1

\* C16: every batch is a contiguous run of the arrival sequence, as it would
\* be if each drain took the whole buffer in one atomic step, for every
\* interleaving of pushes with a timer-fired drain and a count-triggered
\* drain.
C16_BatchesContiguous ==
    \A b \in DOMAIN batches : ContiguousRun(BatchIds(batches[b]))

\* C17: no batch handed to the pool holds more than flush_every requests, for
\* every interleaving of the ingress thread with the timer thread, those in
\* which the timer's drain keeps taking what the ingress thread pushes
\* included.
C17_BatchAtMostFlushEvery ==
    \A b \in DOMAIN batches : Len(batches[b].requests) <= flush_every

\* Thread t takes the step.
StepOf(t) == pc'[t] # pc[t] \/ requests'[t] # requests[t]

\* C18: a flush attempt that drained at least one request does not go to the
\* cancel path: it neither cancels the timer nor writes _tref; no step of a
\* flush attempt changes the insertion counter, which changes only by +1,
\* in the counter draw of an ingress call, and is never reset.
C18_NonEmptyFlushKeepsTimerAndCount ==
    [][ /\ \A t \in Threads :
               (pc[t] \in FlushPcs /\ StepOf(t)) => count' = count
        /\ \A t \in Threads :
               (pc[t] \in {"drain", "flush"} /\ StepOf(t) /\ requests'[t] # <<>>)
               => /\ tref' = tref /\ live' = live
                  /\ pc'[t] \in {"drain", "flush"}
        /\ \A t \in Threads :
               (pc[t] = "flush" /\ StepOf(t))
               => /\ tref' = tref /\ live' = live
                  /\ pc'[t] = "idle"
        /\ count' # count
           => /\ count' = count + 1
              /\ pc["ingress"] = "count" /\ pc'["ingress"] # "count"
      ]_vars

\* C18 witness: the second call's count-triggered flush was submitted, the
\* timer it left alone is still armed and live, and the third call has drawn
\* 3 from the counter without a flush.
C18_Witness ==
    /\ Quiescent
    /\ count = flush_every + 1
    /\ syncFlush = {flush_every}
    /\ tref # None /\ tref \in live
    /\ batches # <<>>
    /\ buffer # <<>>

\* C19: at most one repeating timer is live at any time and every live timer
\* is the one _tref refers to (none is orphaned by a write of _tref that did
\* not cancel it); when no call is in progress _tref is None exactly when no
\* timer is live; for every interleaving of the timer's flush with an
\* ingress call, the read of _tref, cancel() and `_tref = None` being
\* separate steps.
C19_NoOrphanTimer ==
    /\ Cardinality(live) <= 1
    /\ live \subseteq {tref}
    /\ Quiescent => (tref = None <=> live = {})

\* C20: with the one ingress thread making its calls one after the other,
\* the buffer never holds more than flush_every requests, and it is empty
\* when an ingress call whose number is a multiple of flush_every has
\* returned (and until the next call), whatever the timer thread did and
\* whether or not the flush submitted.
C20_BufferAtMostFlushEvery ==
    /\ Len(buffer) <= flush_every
    /\ (pc["ingress"] = "idle" /\ count % flush_every = 0) => buffer = <<>>

\* C20 witness: the buffer held flush_every requests when the second call
\* drew from the counter, its flush took them in one batch, and the call has
\* returned with the buffer empty.
C20_Witness ==
    /\ pc["ingress"] = "idle"
    /\ count = flush_every
    /\ buffer = <<>>
    /\ \E b \in DOMAIN batches : Len(batches[b].requests) = flush_every
    /\ pc["timer"] # "idle"

====
